---- MODULE Spec2Model ----
(***************************************************************************)
(* The operation-dispatch and upstream-adaptation layer of the Azure       *)
(* DevOps MCP server (main.go): the two tool handlers `search` and `read`, *)
(* the client methods searchRepository and getFileContent they call, and   *)
(* the upstream service they talk to.                                      *)
(*                                                                         *)
(* An invocation is a goroutine running one handler.  It blocks only in    *)
(* its upstream requests, so a handler is cut at those points: one action  *)
(* from the call to the first request (or to the early return), one action *)
(* per upstream response.                                                  *)
(***************************************************************************)
EXTENDS Integers, Sequences, FiniteSets, TLC

VARIABLES
    client,     \* the *AzureDevOpsClient built by NewAzureDevOpsClient, shared by all handlers
    upstream,   \* the upstream service: the project's repositories and its code-search index
    calls,      \* the tool invocations in flight, one record per invocation slot
    serving     \* TRUE while the process is alive

vars == <<client, upstream, calls, serving>>

(***************************************************************************)
(* Bounds of the model.                                                    *)
(***************************************************************************)
\* Total number of records (repositories plus search hits) the upstream holds.
MaxUpstream == 2
\* How many times the upstream repository set is renamed in one behaviour.
MaxRenames == 1
\* Concurrent invocations under ConcSpec.
NumCalls == 2

(***************************************************************************)
(* Go values.  A pointer is a sequence of length 0 (nil) or 1.  A string   *)
(* is the sequence of its characters.                                      *)
(***************************************************************************)
NilPtr == <<>>
Ptr(x) == <<x>>
IsNil(p) == Len(p) = 0
Deref(p) == p[1]

EmptyString == <<>>
Svc == <<"S", "v", "c">>
svc == <<"s", "v", "c">>
Lib == <<"L", "i", "b">>
HCC == <<"H", "C", "C">>
TODO == <<"T", "O", "D", "O">>
PathF == <<"/", "a", ".", "g", "o">>
FileF == <<"a", ".", "g", "o">>
Hello == <<"h", "i">>

\* unicode.SimpleFold restricted to the letters used: both cases of a letter
\* fold to the same representative.
FoldRune(ch) ==
    CASE ch = "S" -> "s"
      [] ch = "V" -> "v"
      [] ch = "C" -> "c"
      [] ch = "L" -> "l"
      [] ch = "I" -> "i"
      [] ch = "B" -> "b"
      [] OTHER -> ch

\* strings.EqualFold
EqualFold(s, t) ==
    /\ Len(s) = Len(t)
    /\ \A k \in 1..Len(s) : FoldRune(s[k]) = FoldRune(t[k])

(***************************************************************************)
(* Tool arguments: request.Params.Arguments is a map[string]interface{}.   *)
(* A key is absent, or holds a non-string (a JSON number), or a string.    *)
(***************************************************************************)
Absent == [kind |-> "absent", str |-> EmptyString]
Number == [kind |-> "number", str |-> EmptyString]
Str(s) == [kind |-> "string", str |-> s]

\* v, ok := x.(string): ok reports whether x holds a string; v is "" otherwise.
AssertString(x) ==
    [ok |-> x.kind = "string", v |-> IF x.kind = "string" THEN x.str ELSE EmptyString]

NoArgs == [query |-> Absent, repo |-> Absent, repository |-> Absent, path |-> Absent]

SearchArguments ==
    { [NoArgs EXCEPT !.query = q, !.repo = r] :
        q \in {Absent, Number, Str(TODO)},
        r \in {Absent, Number, Str(EmptyString), Str(Svc)} }

ReadArguments ==
    { [NoArgs EXCEPT !.repository = r, !.path = p] :
        r \in {Absent, Number, Str(Svc), Str(svc)},
        p \in {Absent, Number, Str(PathF)} }

(***************************************************************************)
(* Errors are their messages, a sequence of text segments: fmt.Errorf      *)
(* ("prefix: %w", err) puts the prefix before the wrapped message.         *)
(***************************************************************************)
Errorf(prefix, err) == <<prefix>> \o err
NewError(text) == <<text>>

ErrTimeout == NewError("request timed out")
ErrItemNotFound == NewError("TF401174: the item could not be found")

(***************************************************************************)
(* What an invocation ends in.  A handler returns a tool result with a nil *)
(* error, or a nil result with an error; a nil dereference panics instead  *)
(* of returning.                                                           *)
(***************************************************************************)
NoResult == [kind |-> "none", text |-> <<>>, err |-> <<>>]
NewToolResultText(t) == [kind |-> "text", text |-> t, err |-> <<>>]
ReturnError(e) == [kind |-> "error", text |-> <<>>, err |-> e]
Panic == [kind |-> "panic", text |-> <<>>, err |-> <<>>]

(***************************************************************************)
(* The upstream service.  Every field of a record the SDK decodes is a     *)
(* pointer, nil when the upstream left the field out.                      *)
(***************************************************************************)
\* git.GitRepository: Name *string, Id *uuid.UUID
RepoNames == {Svc, svc, Lib}
GitRepository(name, id) == [Name |-> name, Id |-> id]

\* uuid.UUID.String(): the text form of an identifier.
UUIDString(u) == <<"u", "u", "i", "d", "-">> \o <<(<<"1", "2", "3", "4">>)[u]>>

\* The listings of n repositories: the k-th repository has identifier k or none,
\* and any name or none.
RECURSIVE Listings(_)
Listings(n) ==
    IF n = 0 THEN {<<>>}
    ELSE { Append(l, GitRepository(nm, id)) :
             l \in Listings(n - 1),
             nm \in {NilPtr} \cup {Ptr(x) : x \in RepoNames},
             id \in {NilPtr, Ptr(n)} }

\* search.CodeResult: Repository *Repository, Path *string, FileName *string,
\* Project *ProjectReference; Repository and ProjectReference hold Name *string.
Named(name) == [Name |-> name]
CodeResult(repo, path, file, proj) ==
    [Repository |-> repo, Path |-> path, FileName |-> file, Project |-> proj]

CompleteHit == CodeResult(Ptr(Named(Ptr(Svc))), Ptr(PathF), Ptr(FileF), Ptr(Named(Ptr(HCC))))
EmptyHit == CodeResult(NilPtr, NilPtr, NilPtr, NilPtr)

\* The complete hit, the hits lacking exactly one field, and the empty record.
Hits ==
    { CompleteHit, EmptyHit,
      [CompleteHit EXCEPT !.Repository = NilPtr],
      [CompleteHit EXCEPT !.Repository = Ptr(Named(NilPtr))],
      [CompleteHit EXCEPT !.Path = NilPtr],
      [CompleteHit EXCEPT !.FileName = NilPtr],
      [CompleteHit EXCEPT !.Project = NilPtr],
      [CompleteHit EXCEPT !.Project = Ptr(Named(NilPtr))] }

RECURSIVE HitLists(_)
HitLists(n) ==
    IF n = 0 THEN {<<>>}
    ELSE { Append(l, h) : l \in HitLists(n - 1), h \in Hits }

\* What the upstream can hold: r repositories and h hits, r + h <= MaxUpstream.
UpstreamStates ==
    UNION { { [repos |-> l, atStartup |-> l, index |-> x, renames |-> 0] :
                l \in Listings(r), x \in HitLists(h) } :
            <<r, h>> \in { rh \in (0..MaxUpstream) \X (0..MaxUpstream) :
                             rh[1] + rh[2] <= MaxUpstream } }

\* (response, err) of searchClient.FetchCodeSearchResults: an error, a nil
\* response, a response with nil Results, or the hits of the index.
SearchResponses(up) ==
    { [err |-> Ptr(ErrTimeout), response |-> NilPtr],
      [err |-> NilPtr, response |-> NilPtr],
      [err |-> NilPtr, response |-> Ptr([Results |-> NilPtr])],
      [err |-> NilPtr, response |-> Ptr([Results |-> Ptr(up.index)])] }

\* A listing kept from startup instead of asked for again.
ListedAtStartup(up) == up.atStartup

\* The repositories the upstream lists now.
ListedRepositories(up) == up.repos

\* (repos, err) of gitClient.GetRepositories: an error or the current listing.
RepositoriesResponses(up) ==
    { [err |-> Ptr(ErrTimeout), repos |-> <<>>, asOf |-> up.renames],
      [err |-> NilPtr, repos |-> ListedRepositories(up), asOf |-> up.renames] }

\* (item, err) of gitClient.GetItem: an error (the path does not exist), an item
\* without content (a directory), or an item with content.
ItemResponses ==
    { [err |-> Ptr(ErrItemNotFound), item |-> [Content |-> NilPtr]],
      [err |-> NilPtr, item |-> [Content |-> NilPtr]],
      [err |-> NilPtr, item |-> [Content |-> Ptr(Hello)]] }

(***************************************************************************)
(* searchRepository                                                        *)
(***************************************************************************)
\* A filter map that always names a repository.
SearchFiltersAlwaysRepository(project, repoName) ==
    ("Project" :> <<project>>) @@ ("Repository" :> <<repoName>>)

\* filters := ...: the project always, the repository when repoName != "".
SearchFilters(project, repoName) ==
    IF repoName # EmptyString
    THEN ("Project" :> <<project>>) @@ ("Repository" :> <<repoName>>)
    ELSE ("Project" :> <<project>>)

\* The arguments of FetchCodeSearchResults.
CodeSearchRequest(c, query, repoName) ==
    [api |-> "FetchCodeSearchResults",
     Project |-> c.config.Project,
     SearchText |-> query,
     Filters |-> SearchFilters(c.config.Project, repoName),
     IncludeSnippet |-> TRUE,
     Top |-> 1000]

\* A Go slice: nil, or a (possibly empty) sequence of elements.
NilSlice == [isNil |-> TRUE, elems |-> <<>>]
EmptySlice == [isNil |-> FALSE, elems |-> <<>>]
AppendSlice(s, x) == [isNil |-> FALSE, elems |-> Append(s.elems, x)]

\* var results []map[string]interface{}: declared, never made.
UnmadeResults == NilSlice

\* results := []map[string]interface{}{}
InitialResults == EmptySlice

\* One iteration of the loop over *response.Results: "skip" at the continue,
\* "panic" at a nil dereference in the map literal, else "append" with the record.
ProcessHit(result) ==
    IF IsNil(result.Repository) \/ IsNil(result.Path) \/ IsNil(result.FileName)
    THEN [op |-> "skip", rec |-> <<>>]
    ELSE IF \/ IsNil(Deref(result.Repository).Name)
            \/ IsNil(result.Project)
            \/ IsNil(Deref(result.Project).Name)
         THEN [op |-> "panic", rec |-> <<>>]
         ELSE [op |-> "append",
               rec |-> <<[repository |-> Deref(Deref(result.Repository).Name),
                          path |-> Deref(result.Path),
                          fileName |-> Deref(result.FileName),
                          project |-> Deref(Deref(result.Project).Name)]>>]

\* The loop, from hit k on, with the results built so far.
RECURSIVE ProcessResults(_, _, _)
ProcessResults(hits, k, results) ==
    IF k > Len(hits) THEN [panicked |-> FALSE, results |-> results]
    ELSE LET step == ProcessHit(hits[k])
         IN  CASE step.op = "panic" -> [panicked |-> TRUE, results |-> results]
               [] step.op = "skip" -> ProcessResults(hits, k + 1, results)
               [] OTHER -> ProcessResults(hits, k + 1, AppendSlice(results, step.rec[1]))

\* searchRepository after FetchCodeSearchResults returned r:
\* (results, err), or a panic.
SearchRepositoryOutcome(r) ==
    IF ~IsNil(r.err)
    THEN [kind |-> "err", results |-> NilSlice,
          err |-> Errorf("error searching code: ", Deref(r.err))]
    ELSE IF ~IsNil(r.response) /\ ~IsNil(Deref(r.response).Results)
         THEN LET p == ProcessResults(Deref(Deref(r.response).Results), 1, InitialResults)
              IN  IF p.panicked
                  THEN [kind |-> "panic", results |-> NilSlice, err |-> <<>>]
                  ELSE [kind |-> "ok", results |-> p.results, err |-> <<>>]
         ELSE [kind |-> "ok", results |-> InitialResults, err |-> <<>>]

\* encoding/json of a string and of one record: a map's keys come out sorted.
\* None of the characters used here is one json.Marshal escapes, and Marshal
\* cannot fail on a slice of maps of strings.
JSONString(s) == <<"\"">> \o s \o <<"\"">>
JSONRecord(rec) ==
    <<"{", "\"fileName\":">> \o JSONString(rec.fileName)
    \o <<",", "\"path\":">> \o JSONString(rec.path)
    \o <<",", "\"project\":">> \o JSONString(rec.project)
    \o <<",", "\"repository\":">> \o JSONString(rec.repository)
    \o <<"}">>

RECURSIVE JSONElements(_, _)
JSONElements(elems, k) ==
    IF k > Len(elems) THEN <<>>
    ELSE (IF k > 1 THEN <<",">> ELSE <<>>) \o JSONRecord(elems[k]) \o JSONElements(elems, k + 1)

\* json.Marshal(results): a nil slice encodes as null, any other as an array.
JSONMarshal(results) ==
    IF results.isNil THEN <<"null">>
    ELSE <<"[">> \o JSONElements(results.elems, 1) \o <<"]">>

(***************************************************************************)
(* getFileContent                                                          *)
(***************************************************************************)
\* The arguments of GetRepositories and of GetItem.
GetRepositoriesRequest(c) ==
    [api |-> "GetRepositories", Project |-> c.config.Project]

GetItemRequest(c, repoID, path) ==
    [api |-> "GetItem", RepositoryId |-> repoID, Project |-> c.config.Project,
     Path |-> path, IncludeContent |-> TRUE]

\* for _, repo := range *repos: from repository k on.  "panic" at a nil
\* *repo.Name, "found" with the index at the break, "absent" past the end.
RECURSIVE ScanRepositories(_, _, _)
ScanRepositories(repos, repoName, k) ==
    IF k > Len(repos) THEN [kind |-> "absent", at |-> 0]
    ELSE IF IsNil(repos[k].Name) THEN [kind |-> "panic", at |-> k]
    ELSE IF EqualFold(Deref(repos[k].Name), repoName) THEN [kind |-> "found", at |-> k]
    ELSE ScanRepositories(repos, repoName, k + 1)

\* getFileContent from the return of GetRepositories to the call of GetItem:
\* "err" (the listing failed, or no repository matched), "panic", or "fetch"
\* with the repoID to fetch from.
ResolveRepository(r, repoName) ==
    IF ~IsNil(r.err)
    THEN [kind |-> "err", repoID |-> EmptyString, err |-> Deref(r.err)]
    ELSE LET scan == ScanRepositories(r.repos, repoName, 1)
         IN  CASE scan.kind = "panic" ->
                    [kind |-> "panic", repoID |-> EmptyString, err |-> <<>>]
               [] scan.kind = "absent" ->
                    [kind |-> "err", repoID |-> EmptyString,
                     err |-> <<"repository not found: ">> \o repoName]
               [] OTHER ->
                    IF IsNil(r.repos[scan.at].Id)
                    THEN [kind |-> "panic", repoID |-> EmptyString, err |-> <<>>]
                    ELSE [kind |-> "fetch",
                          repoID |-> UUIDString(Deref(r.repos[scan.at].Id)),
                          err |-> <<>>]

\* An item without content reported as a failure.
ItemOutcomeContentRequired(r) ==
    IF ~IsNil(r.err) THEN [kind |-> "err", content |-> EmptyString, err |-> Deref(r.err)]
    ELSE IF IsNil(r.item.Content)
         THEN [kind |-> "err", content |-> EmptyString, err |-> NewError("item has no content")]
         ELSE [kind |-> "ok", content |-> Deref(r.item.Content), err |-> <<>>]

\* getFileContent after GetItem returned r: (content, err).
ItemOutcome(r) ==
    IF ~IsNil(r.err) THEN [kind |-> "err", content |-> EmptyString, err |-> Deref(r.err)]
    ELSE IF IsNil(r.item.Content)
         THEN [kind |-> "ok", content |-> EmptyString, err |-> <<>>]
         ELSE [kind |-> "ok", content |-> Deref(r.item.Content), err |-> <<>>]

\* c after searchRepository / getFileContent ran on it: both only read c.config.
SearchRepositoryReceiverWritten(c, query, repoName) ==
    [c EXCEPT !.config.Project = IF repoName # EmptyString THEN repoName ELSE @]

SearchRepositoryReceiver(c, query, repoName) == c

GetFileContentReceiver(c, repoName, path) == c

(***************************************************************************)
(* The tool handlers.  An invocation is a record: where the goroutine is   *)
(* (pc), the handler's locals, and a log of the upstream requests it has   *)
(* issued and the responses it has got.                                    *)
(***************************************************************************)
IdleCall ==
    [pc |-> "idle", tool |-> "none", args |-> NoArgs,
     query |-> EmptyString, repoName |-> EmptyString, path |-> EmptyString,
     repoID |-> EmptyString,
     reqs |-> <<>>, resps |-> <<>>, result |-> NoResult]

Done(call, result) == [call EXCEPT !.pc = "done", !.result = result]

\* A search handler that goes on without a query.
SearchHandlerUnchecked(c, a) ==
    LET call == [IdleCall EXCEPT !.tool = "search", !.args = a]
        query == AssertString(a.query)
        repoName == AssertString(a.repo).v
    IN  [call EXCEPT !.pc = "searching", !.query = query.v, !.repoName = repoName,
                     !.reqs = <<CodeSearchRequest(c, query.v, repoName)>>]

\* The search handler from its call to FetchCodeSearchResults.
SearchHandler(c, a) ==
    LET call == [IdleCall EXCEPT !.tool = "search", !.args = a]
        query == AssertString(a.query)
        repoName == AssertString(a.repo).v
    IN  IF ~query.ok
        THEN Done(call, ReturnError(NewError("query must be a string")))
        ELSE [call EXCEPT !.pc = "searching", !.query = query.v, !.repoName = repoName,
                          !.reqs = <<CodeSearchRequest(c, query.v, repoName)>>]

\* A search handler that asks the upstream again after a failure.
SearchHandlerRetrying(c, call, r) ==
    LET got == [call EXCEPT !.resps = Append(@, r)]
        out == SearchRepositoryOutcome(r)
    IN  CASE out.kind = "panic" -> Done(got, Panic)
          [] out.kind = "err" /\ Len(call.reqs) < 2 ->
                [got EXCEPT !.reqs = Append(@, CodeSearchRequest(c, call.query, call.repoName))]
          [] out.kind = "err" ->
                Done(got, ReturnError(Errorf("error searching repositories: ", out.err)))
          [] OTHER -> Done(got, NewToolResultText(JSONMarshal(out.results)))

\* The search handler from the return of FetchCodeSearchResults to its end.
SearchHandlerResume(c, call, r) ==
    LET got == [call EXCEPT !.resps = Append(@, r)]
        out == SearchRepositoryOutcome(r)
    IN  CASE out.kind = "panic" -> Done(got, Panic)
          [] out.kind = "err" ->
                Done(got, ReturnError(Errorf("error searching repositories: ", out.err)))
          [] OTHER -> Done(got, NewToolResultText(JSONMarshal(out.results)))

\* The read handler from its call to GetRepositories.
ReadHandler(c, a) ==
    LET call == [IdleCall EXCEPT !.tool = "read", !.args = a]
        repo == AssertString(a.repository)
        path == AssertString(a.path)
    IN  IF ~repo.ok
        THEN Done(call, ReturnError(NewError("repository must be a string")))
        ELSE IF ~path.ok
        THEN Done(call, ReturnError(NewError("path must be a string")))
        ELSE [call EXCEPT !.pc = "listing", !.repoName = repo.v, !.path = path.v,
                          !.reqs = <<GetRepositoriesRequest(c)>>]

\* The read handler from the return of GetRepositories to GetItem (or its end).
ReadHandlerResolve(c, call, r) ==
    LET got == [call EXCEPT !.resps = Append(@, r)]
        out == ResolveRepository(r, call.repoName)
    IN  CASE out.kind = "panic" -> Done(got, Panic)
          [] out.kind = "err" ->
                Done(got, ReturnError(Errorf("error getting file content: ", out.err)))
          [] OTHER ->
                [got EXCEPT !.pc = "fetching", !.repoID = out.repoID,
                            !.reqs = Append(@, GetItemRequest(c, out.repoID, call.path))]

\* The read handler from the return of GetItem to its end.
ReadHandlerResume(call, r) ==
    LET got == [call EXCEPT !.resps = Append(@, r)]
        out == ItemOutcome(r)
    IN  IF out.kind = "err"
        THEN Done(got, ReturnError(Errorf("error getting file content: ", out.err)))
        ELSE Done(got, NewToolResultText(out.content))

(***************************************************************************)
(* The state machine.                                                      *)
(***************************************************************************)
\* The client NewAzureDevOpsClient builds from config.yaml.
StartupClient ==
    [config |-> [Project |-> HCC],
     connection |-> "connection", gitClient |-> "gitClient", searchClient |-> "searchClient"]

\* A panic in a handler's goroutine ends the process, unless the transport
\* recovers it in the goroutine that called the handler; mcp-go decides which.
AfterPanic == {TRUE, FALSE}

\* Invocation i moves on to `call`.  Return(i) touches nothing another invocation
\* reads, so finished invocations are looked at one at a time: a handler ends
\* when no other finished result is still waiting to be taken.  Every
\* interleaving of the handlers' upstream requests and responses remains.
Finish(i, call) ==
    /\ call.pc = "done" => \A j \in DOMAIN calls \ {i} : calls[j].pc # "done"
    /\ calls' = [calls EXCEPT ![i] = call]
    /\ IF call.result.kind = "panic"
       THEN serving' \in AfterPanic
       ELSE serving' = serving

\* A client calls the search tool.
CallSearch(i) ==
    /\ serving
    /\ calls[i].pc = "idle"
    /\ \E a \in SearchArguments :
         LET query == AssertString(a.query)
             repoName == AssertString(a.repo).v
         IN  /\ Finish(i, SearchHandler(client, a))
             /\ client' = IF query.ok
                          THEN SearchRepositoryReceiver(client, query.v, repoName)
                          ELSE client
    /\ UNCHANGED upstream

\* FetchCodeSearchResults returns.
SearchReturns(i) ==
    /\ serving
    /\ calls[i].pc = "searching"
    /\ \E r \in SearchResponses(upstream) :
         Finish(i, SearchHandlerResume(client, calls[i], r))
    /\ UNCHANGED <<client, upstream>>

\* A client calls the read tool.
CallRead(i) ==
    /\ serving
    /\ calls[i].pc = "idle"
    /\ \E a \in ReadArguments :
         LET repo == AssertString(a.repository)
             path == AssertString(a.path)
         IN  /\ Finish(i, ReadHandler(client, a))
             /\ client' = IF repo.ok /\ path.ok
                          THEN GetFileContentReceiver(client, repo.v, path.v)
                          ELSE client
    /\ UNCHANGED upstream

\* GetRepositories returns.
RepositoriesReturn(i) ==
    /\ serving
    /\ calls[i].pc = "listing"
    /\ \E r \in RepositoriesResponses(upstream) :
         Finish(i, ReadHandlerResolve(client, calls[i], r))
    /\ UNCHANGED <<client, upstream>>

\* GetItem returns.
ItemReturns(i) ==
    /\ serving
    /\ calls[i].pc = "fetching"
    /\ \E r \in ItemResponses :
         Finish(i, ReadHandlerResume(calls[i], r))
    /\ UNCHANGED <<client, upstream>>

\* The result has gone back to the caller; the slot takes the next call.
Return(i) ==
    /\ serving
    /\ calls[i].pc = "done"
    /\ calls' = [calls EXCEPT ![i] = IdleCall]
    /\ UNCHANGED <<client, upstream, serving>>

\* Somebody renames a repository upstream.
UpstreamRename ==
    /\ upstream.renames < MaxRenames
    /\ \E k \in 1..Len(upstream.repos), n \in RepoNames :
         /\ upstream.repos[k].Name # Ptr(n)
         /\ upstream' = [upstream EXCEPT !.repos[k].Name = Ptr(n), !.renames = @ + 1]
    /\ UNCHANGED <<client, calls, serving>>

Next ==
    \/ \E i \in DOMAIN calls : CallSearch(i)
    \/ \E i \in DOMAIN calls : SearchReturns(i)
    \/ \E i \in DOMAIN calls : CallRead(i)
    \/ \E i \in DOMAIN calls : RepositoriesReturn(i)
    \/ \E i \in DOMAIN calls : ItemReturns(i)
    \/ \E i \in DOMAIN calls : Return(i)
    \/ UpstreamRename

\* One invocation at a time, against any upstream.
Init ==
    /\ client = StartupClient
    /\ upstream \in UpstreamStates
    /\ calls = <<IdleCall>>
    /\ serving = TRUE

Spec == Init /\ [][Next]_vars

\* The upstreams of the concurrent runs: one repository, and one hit that is
\* complete or lacks its project.
ConcUpstreamStates ==
    { u \in UpstreamStates :
        /\ u.repos = <<GitRepository(Ptr(svc), Ptr(1))>>
        /\ u.index \in {<<CompleteHit>>, <<[CompleteHit EXCEPT !.Project = NilPtr]>>} }

\* NumCalls invocations in flight at once.
ConcInit ==
    /\ client = StartupClient
    /\ upstream \in ConcUpstreamStates
    /\ calls = [i \in 1..NumCalls |-> IdleCall]
    /\ serving = TRUE

ConcSpec == ConcInit /\ [][Next]_vars

(***************************************************************************)
(* The claims.                                                             *)
(***************************************************************************)
Slots == DOMAIN calls

ValidationMessages ==
    { NewError("query must be a string"),
      NewError("repository must be a string"),
      NewError("path must be a string") }

IsValidationError(res) == res.kind = "error" /\ res.err \in ValidationMessages

\* The error message e ends with the message of the error it wraps.
EndsWith(e, inner) ==
    /\ Len(e) >= Len(inner)
    /\ SubSeq(e, Len(e) - Len(inner) + 1, Len(e)) = inner

LacksRequired(call) ==
    \/ call.tool = "search" /\ call.args.query.kind # "string"
    \/ call.tool = "read" /\ call.args.repository.kind # "string"
    \/ call.tool = "read" /\ call.args.path.kind # "string"

\* C1: a tool call whose required argument (query for search; repository or
\* path for read) is missing or not a string has ended in a validation error
\* and has issued no upstream request.
C1_ValidationBeforeUpstream ==
    \A i \in Slots :
        LacksRequired(calls[i]) =>
            /\ calls[i].pc = "done"
            /\ IsValidationError(calls[i].result)
            /\ calls[i].reqs = <<>>

\* A read call with a repository name and no path has been answered.
C1_Witness ==
    \E i \in Slots :
        /\ calls[i].tool = "read"
        /\ calls[i].args.repository.kind = "string"
        /\ calls[i].args.path.kind = "absent"
        /\ calls[i].pc = "done"

\* A hit with its repository, path, file name and project (and their names).
CompleteResult(h) ==
    /\ ~IsNil(h.Repository) /\ ~IsNil(h.Path) /\ ~IsNil(h.FileName) /\ ~IsNil(h.Project)
    /\ ~IsNil(Deref(h.Repository).Name) /\ ~IsNil(Deref(h.Project).Name)

\* The records of the complete hits among hits, in their order.
RECURSIVE RecordsOfComplete(_, _)
RecordsOfComplete(hits, k) ==
    IF k > Len(hits) THEN <<>>
    ELSE (IF CompleteResult(hits[k])
          THEN <<[repository |-> Deref(Deref(hits[k].Repository).Name),
                  path |-> Deref(hits[k].Path),
                  fileName |-> Deref(hits[k].FileName),
                  project |-> Deref(Deref(hits[k].Project).Name)]>>
          ELSE <<>>) \o RecordsOfComplete(hits, k + 1)

HasHits(r) == IsNil(r.err) /\ ~IsNil(r.response) /\ ~IsNil(Deref(r.response).Results)

\* C2: whatever hits the upstream search returns, the search call succeeds with
\* the records of exactly the hits that have repository, path, file name and
\* project; a hit lacking one of them is dropped.
C2_IncompleteHitsDropped ==
    \A i \in Slots :
        (calls[i].tool = "search" /\ Len(calls[i].resps) = 1 /\ HasHits(calls[i].resps[1])) =>
            /\ calls[i].pc = "done"
            /\ calls[i].result =
                 NewToolResultText(JSONMarshal(
                     [isNil |-> FALSE,
                      elems |-> RecordsOfComplete(
                                    Deref(Deref(calls[i].resps[1].response).Results), 1)]))

\* C3: the process is serving, and every call that has ended has ended in a
\* success result or in a failure result the caller sees.
C3_AlwaysServing ==
    /\ serving
    /\ \A i \in Slots :
         calls[i].pc = "done" => calls[i].result.kind \in {"text", "error"}

\* The places of the listed repositories whose name equals repoName in any case.
Matches(repos, repoName) ==
    { k \in 1..Len(repos) :
        ~IsNil(repos[k].Name) /\ EqualFold(Deref(repos[k].Name), repoName) }

FirstMatch(repos, repoName) ==
    CHOOSE k \in Matches(repos, repoName) : \A j \in Matches(repos, repoName) : k <= j

IsNotFound(call) ==
    /\ call.result.kind = "error"
    /\ EndsWith(call.result.err, <<"repository not found: ">> \o call.repoName)

Listed(call) ==
    call.tool = "read" /\ Len(call.resps) >= 1 /\ IsNil(call.resps[1].err)

\* C4: after a successful listing, a read call has fetched the item from the
\* first listed repository whose name equals the given name in any case; it
\* has failed with not-found, fetching nothing, exactly when none matches.
C4_FirstMatchOrNotFound ==
    \A i \in Slots :
        Listed(calls[i]) =>
            LET repos == calls[i].resps[1].repos
                m == Matches(repos, calls[i].repoName)
            IN  IF m = {}
                THEN IsNotFound(calls[i]) /\ Len(calls[i].reqs) = 1
                ELSE /\ ~IsNotFound(calls[i])
                     /\ Len(calls[i].reqs) = 2
                     /\ calls[i].reqs[2].api = "GetItem"
                     /\ ~IsNil(repos[FirstMatch(repos, calls[i].repoName)].Id)
                     /\ calls[i].reqs[2].RepositoryId =
                          UUIDString(Deref(repos[FirstMatch(repos, calls[i].repoName)].Id))

ZeroHits(r) ==
    /\ IsNil(r.err)
    /\ \/ IsNil(r.response)
       \/ IsNil(Deref(r.response).Results)
       \/ Len(Deref(Deref(r.response).Results)) = 0

\* C5: when the upstream search succeeds with no hits, or with a nil response
\* or a nil result set, the search call has succeeded with the text [].
C5_NoHitsIsEmptyArray ==
    \A i \in Slots :
        (calls[i].tool = "search" /\ Len(calls[i].resps) = 1 /\ ZeroHits(calls[i].resps[1])) =>
            /\ calls[i].pc = "done"
            /\ calls[i].result = NewToolResultText(<<"[", "]">>)

\* A search was answered with a nil response.
C5_Witness ==
    \E i \in Slots :
        /\ calls[i].tool = "search"
        /\ Len(calls[i].resps) = 1
        /\ IsNil(calls[i].resps[1].err)
        /\ IsNil(calls[i].resps[1].response)
        /\ calls[i].pc = "done"

\* C6: when the repository resolved and the item fetch succeeded, the read call
\* has succeeded with the item's content, the empty string if it has none.
C6_ContentOrEmpty ==
    \A i \in Slots :
        (calls[i].tool = "read" /\ Len(calls[i].resps) = 2 /\ IsNil(calls[i].resps[2].err)) =>
            /\ calls[i].pc = "done"
            /\ calls[i].result =
                 NewToolResultText(IF IsNil(calls[i].resps[2].item.Content)
                                   THEN EmptyString
                                   ELSE Deref(calls[i].resps[2].item.Content))

\* A read fetched an item without content.
C6_Witness ==
    \E i \in Slots :
        /\ calls[i].tool = "read"
        /\ Len(calls[i].resps) = 2
        /\ IsNil(calls[i].resps[2].err)
        /\ IsNil(calls[i].resps[2].item.Content)
        /\ calls[i].pc = "done"

\* C7: a search call with a query is not refused whatever its repo argument,
\* and its one upstream request names the configured project as its project and
\* as its project filter, and has a repository filter exactly when repo is a
\* non-empty string, then equal to it.
C7_SearchFilters ==
    \A i \in Slots :
        (calls[i].tool = "search" /\ calls[i].args.query.kind = "string") =>
            LET repo == calls[i].args.repo
                named == repo.kind = "string" /\ repo.str # EmptyString
            IN  /\ ~IsValidationError(calls[i].result)
                /\ Len(calls[i].reqs) = 1
                /\ calls[i].reqs[1].api = "FetchCodeSearchResults"
                /\ calls[i].reqs[1].Project = StartupClient.config.Project
                /\ "Project" \in DOMAIN calls[i].reqs[1].Filters
                /\ calls[i].reqs[1].Filters["Project"] = <<StartupClient.config.Project>>
                /\ DOMAIN calls[i].reqs[1].Filters \subseteq {"Project", "Repository"}
                /\ ("Repository" \in DOMAIN calls[i].reqs[1].Filters) <=> named
                /\ named => calls[i].reqs[1].Filters["Repository"] = <<repo.str>>

\* A search whose repo argument is not a string has issued its request.
C7_Witness ==
    \E i \in Slots :
        /\ calls[i].tool = "search"
        /\ calls[i].args.query.kind = "string"
        /\ calls[i].args.repo.kind = "number"
        /\ Len(calls[i].reqs) = 1

\* C8: a search call issues at most one search request, a read call at most one
\* listing and then at most one item fetch; a request that failed is the last
\* one of its call, which has ended in an error whose message ends with that
\* of the failure.
C8_NoRetry ==
    \A i \in Slots :
        /\ Len(calls[i].resps) <= Len(calls[i].reqs)
        /\ calls[i].tool = "search" =>
             /\ Len(calls[i].reqs) <= 1
             /\ \A k \in 1..Len(calls[i].reqs) :
                  calls[i].reqs[k].api = "FetchCodeSearchResults"
        /\ calls[i].tool = "read" =>
             /\ Len(calls[i].reqs) <= 2
             /\ Len(calls[i].reqs) >= 1 => calls[i].reqs[1].api = "GetRepositories"
             /\ Len(calls[i].reqs) = 2 => calls[i].reqs[2].api = "GetItem"
        /\ \A k \in 1..Len(calls[i].resps) :
             ~IsNil(calls[i].resps[k].err) =>
                 /\ k = Len(calls[i].reqs)
                 /\ calls[i].pc = "done"
                 /\ calls[i].result.kind = "error"
                 /\ EndsWith(calls[i].result.err, Deref(calls[i].resps[k].err))

\* A read whose item fetch failed after its listing succeeded.
C8_Witness ==
    \E i \in Slots :
        /\ calls[i].tool = "read"
        /\ Len(calls[i].resps) = 2
        /\ ~IsNil(calls[i].resps[2].err)

\* An invocation run alone on the client as built at startup: its record after
\* the call with args and the responses resps.
RunAlone(tool, args, resps) ==
    IF tool = "search"
    THEN LET started == SearchHandler(StartupClient, args)
         IN  IF Len(resps) = 0 THEN started
             ELSE SearchHandlerResume(StartupClient, started, resps[1])
    ELSE LET started == ReadHandler(StartupClient, args)
         IN  IF Len(resps) = 0 THEN started
             ELSE LET resolved == ReadHandlerResolve(StartupClient, started, resps[1])
                  IN  IF Len(resps) = 1 THEN resolved
                      ELSE ReadHandlerResume(resolved, resps[2])

\* C9: whatever the other invocations do, the client stays as built at startup,
\* and an invocation's requests and result are those of the same call run
\* alone with the same arguments and upstream responses.
C9_InvocationsIndependent ==
    /\ client = StartupClient
    /\ \A i \in Slots :
         calls[i].tool # "none" =>
             calls[i] = RunAlone(calls[i].tool, calls[i].args, calls[i].resps)

\* A search has ended while a read that started with another repository
\* filter in flight is between its listing and its item fetch.
C9_Witness ==
    \E i, j \in Slots :
        /\ i # j
        /\ calls[i].tool = "search"
        /\ calls[i].repoName # EmptyString
        /\ calls[i].pc = "done"
        /\ calls[i].result.kind = "text"
        /\ calls[j].pc = "fetching"

\* C10: a read call that passed validation has asked for the listing first;
\* the listing it got is the upstream's as of then (still the upstream's if no
\* rename came after), and the repository it fetches from is resolved in it.
C10_FreshListing ==
    \A i \in Slots :
        (calls[i].tool = "read" /\ ~LacksRequired(calls[i])) =>
            /\ Len(calls[i].reqs) >= 1
            /\ calls[i].reqs[1].api = "GetRepositories"
            /\ Listed(calls[i]) =>
                 /\ calls[i].resps[1].asOf = upstream.renames =>
                      calls[i].resps[1].repos = upstream.repos
                 /\ Len(calls[i].reqs) = 2 =>
                      \E k \in Matches(calls[i].resps[1].repos, calls[i].repoName) :
                          /\ ~IsNil(calls[i].resps[1].repos[k].Id)
                          /\ calls[i].reqs[2].RepositoryId =
                               UUIDString(Deref(calls[i].resps[1].repos[k].Id))

\* A read listed after a rename and resolved its name in the renamed set, to
\* a repository that had another name at startup.
C10_Witness ==
    \E i \in Slots :
        /\ Listed(calls[i])
        /\ calls[i].resps[1].asOf >= 1
        /\ Len(calls[i].reqs) = 2
        /\ Matches(upstream.atStartup, calls[i].repoName) = {}

====
